---- MODULE Spec2Model ----
(***************************************************************************)
(* A model of the IPL dashboard script (src/app.py).  The script is one    *)
(* top-to-bottom render cycle: upload and read the match CSV, validate its *)
(* columns, derive winner/margin, select a team, build that team's series, *)
(* then the team tab (rolling average, outliers, trend prediction), the    *)
(* player comparison tab and the top performers tab.                       *)
(*                                                                         *)
(* Numbers that pandas/numpy hold as floats are modelled exactly: a float  *)
(* is a record [k |-> "num", n, d] (the rational n/d, d > 0), "nan" or     *)
(* "inf"; division by zero follows IEEE-754 as numpy applies it.           *)
(***************************************************************************)
EXTENDS Integers, Sequences, FiniteSets, TLC

VARIABLES
    pc,           \* position of the script
    match_file,   \* the uploaded match CSV: its header as written and its rows
    columns,      \* df.columns
    df,           \* the match table, a sequence of rows
    team,         \* the sidebar's selected team
    team_df,      \* the selected team's series
    rolling_avg,  \* team_df["rolling_avg"]
    outliers,     \* the outlier rows
    prediction,   \* the trend predictor's result
    messages,     \* what st.info / st.error / st.warning / st.success reported
    player_file,  \* the uploaded player CSV: its header and its rows
    players,      \* the player table as tab 2 read it, scored by tab 3
    compare,      \* tab 2's comparison table
    top_players,  \* tab 3's ranking
    computed      \* the derived computations this run has started

vars == <<pc, match_file, columns, df, team, team_df, rolling_avg, outliers,
          prediction, messages, player_file, players, compare, top_players,
          computed>>

matchVars == <<match_file, columns, df, team, team_df>>
seriesVars == <<rolling_avg, outliers, prediction>>
playerVars == <<player_file, players, compare, top_players>>

(***************************************************************************)
(* Bounds of the model.                                                    *)
(***************************************************************************)
MaxRows == 2        \* rows of a match table
MaxMissing == 1     \* required columns a header may lack
MaxSeries == 6      \* observations of a team series drawn directly
MaxPlayers == 6     \* rows of a player table

TeamPairs == {<<"A", "B">>, <<"B", "A">>, <<"B", "C">>}
Dates == {1, 2}
Venues == {"V"}
Runs == {0, 1}

(***************************************************************************)
(* Sequences and exact arithmetic.                                         *)
(***************************************************************************)
SeqsUpTo(S, lo, hi) == UNION {[1..n -> S] : n \in lo..hi}

Abs(x) == IF x < 0 THEN -x ELSE x

Min(a, b) == IF a <= b THEN a ELSE b

RECURSIVE SumSeq(_)
SumSeq(s) == IF s = <<>> THEN 0 ELSE Head(s) + SumSeq(Tail(s))

\* The entries of s at the positions in keep, in the order of s.
SelectIdx(s, keep) ==
    LET F[i \in 0..Len(s)] ==
            IF i = 0 THEN <<>>
            ELSE IF i \in keep THEN Append(F[i - 1], s[i]) ELSE F[i - 1]
    IN  F[Len(s)]

Range(s) == {s[i] : i \in DOMAIN s}

\* Every arrangement of the indices S in nondecreasing order of key: what a
\* sort that is not stable may return.
RECURSIVE Orderings(_, _)
Orderings(S, key) ==
    IF S = {} THEN {<<>>}
    ELSE LET least == {i \in S : \A j \in S : key[i] <= key[j]}
         IN  UNION {{<<i>> \o rest : rest \in Orderings(S \ {i}, key)} : i \in least}

NaN == [k |-> "nan"]
Inf == [k |-> "inf"]
RECURSIVE Gcd(_, _)
Gcd(a, b) == IF b = 0 THEN a ELSE Gcd(b, a % b)

\* The rational n/d (d > 0), kept in lowest terms.
Num(n, d) ==
    LET g == Gcd(Abs(n), d)
    IN  [k |-> "num", n |-> n \div g, d |-> d \div g]
IsNum(x) == x.k = "num"

\* numpy's float division: x/0 is nan when x = 0 and inf when x > 0.
Div(a, b) ==
    IF ~IsNum(a) \/ ~IsNum(b) THEN NaN
    ELSE IF b.n = 0 THEN (IF a.n = 0 THEN NaN ELSE Inf)
    ELSE IF b.n > 0 THEN Num(a.n * b.d, a.d * b.n)
    ELSE Num(-(a.n * b.d), a.d * (-b.n))

Add(a, b) ==
    IF a.k = "nan" \/ b.k = "nan" THEN NaN
    ELSE IF a.k = "inf" \/ b.k = "inf" THEN Inf
    ELSE Num(a.n * b.d + b.n * a.d, a.d * b.d)

Mul(a, b) ==
    IF a.k = "nan" \/ b.k = "nan" THEN NaN
    ELSE IF a.k = "inf" \/ b.k = "inf"
         THEN (IF (IsNum(a) /\ a.n = 0) \/ (IsNum(b) /\ b.n = 0) THEN NaN ELSE Inf)
    ELSE Num(a.n * b.n, a.d * b.d)

\* IEEE comparison: every comparison with nan is false.
Gt(a, b) ==
    IF a.k = "nan" \/ b.k = "nan" THEN FALSE
    ELSE IF b.k = "inf" THEN FALSE
    ELSE IF a.k = "inf" THEN TRUE
    ELSE a.n * b.d > b.n * a.d

RECURSIVE SumNum(_)
SumNum(s) == IF s = <<>> THEN Num(0, 1) ELSE Add(Head(s), SumNum(Tail(s)))

NumEq(a, b) == IsNum(a) /\ IsNum(b) /\ a.n * b.d = b.n * a.d

(***************************************************************************)
(* Column names.  A raw header name is the name with optional surrounding  *)
(* whitespace and upper-casing; c.strip().lower() removes both.            *)
(***************************************************************************)
Col(name) == [name |-> name, pad |-> FALSE, upper |-> FALSE]

StripLower(c) == [c EXCEPT !.pad = FALSE, !.upper = FALSE]

required_cols ==
    {"match_id", "date", "team1", "team2", "venue", "runs_team1", "runs_team2"}

Decorations ==
    {[name |-> n, pad |-> p, upper |-> ~p] : n \in {"date", "team1"}, p \in BOOLEAN}

\* The headers that lack exactly the columns miss: every other required
\* column present, at most one of them padded or in upper case.
HeadersLacking(miss) ==
    LET base == {Col(n) : n \in required_cols \ miss}
    IN  {base} \cup
        {(base \ {Col(d.name)}) \cup {d} : d \in {x \in Decorations : x.name \notin miss}}

MatchRows ==
    {[team1 |-> p[1], team2 |-> p[2], date |-> d, venue |-> v,
      runs_team1 |-> r1, runs_team2 |-> r2] :
        p \in TeamPairs, d \in Dates, v \in Venues, r1 \in Runs, r2 \in Runs}

\* match_id is the unique key: row i of a table carries match_id i.
WithIds(t) == [i \in DOMAIN t |-> t[i] @@ [match_id |-> i]]

MatchTables(n) == {WithIds(t) : t \in SeqsUpTo(MatchRows, 1, n)}

NoFile == [uploaded |-> FALSE]

\* A table as a file with the columns cols holds it: each row keeps only
\* those columns.
Restrict(t, cols) == [i \in DOMAIN t |-> [c \in cols |-> t[i][c]]]

\* The uploads drawn: the header as required over tables of up to MaxRows
\* rows; and, over one-row tables, the headers with a padded or upper-case
\* name and the headers lacking up to MaxMissing columns.
MatchFiles ==
    {[uploaded |-> TRUE, header |-> {Col(n) : n \in required_cols}, rows |-> t] :
        t \in MatchTables(MaxRows)}
    \cup
    {[uploaded |-> TRUE, header |-> h,
      rows |-> Restrict(t, {StripLower(c).name : c \in h})] :
        h \in UNION {HeadersLacking(m) :
                 m \in {x \in SUBSET required_cols : Cardinality(x) <= MaxMissing}},
        t \in MatchTables(1)}

Report(kind, text) == Append(messages, [kind |-> kind, text |-> text])

(***************************************************************************)
(* FILE UPLOAD, read_csv and BASIC VALIDATION.                             *)
(***************************************************************************)
FileUpload ==
    /\ pc = "upload"
    /\ \E f \in MatchFiles \cup {NoFile} :
          /\ match_file' = f
          /\ IF ~f.uploaded
             THEN /\ messages' = Report("info", "Upload a CSV")
                  /\ pc' = "stopped"
             ELSE /\ messages' = messages
                  /\ pc' = "read"
    /\ UNCHANGED <<columns, df, team, team_df, seriesVars, playerVars, computed>>

\* parse_dates=["date"] is resolved against the header as written, before the
\* column names are normalised: without a column named exactly "date"
\* read_csv raises ValueError, which nothing catches.
ParseDatesFound(header) == Col("date") \in header

ReadCsv ==
    /\ pc = "read"
    /\ IF ~ParseDatesFound(match_file.header)
       THEN /\ pc' = "crashed"
            /\ messages' = Report("exception", "ValueError")
            /\ UNCHANGED <<columns, df>>
       ELSE /\ df' = match_file.rows
            /\ columns' = {StripLower(c).name : c \in match_file.header}
            /\ pc' = "validate"
            /\ messages' = messages
    /\ UNCHANGED <<match_file, team, team_df, seriesVars, playerVars, computed>>

MissingColumns(cols) == required_cols \ cols

BasicValidation ==
    /\ pc = "validate"
    /\ IF ~(required_cols \subseteq columns)
       THEN /\ messages' = Report("error", MissingColumns(columns))
            /\ pc' = "stopped"
       ELSE /\ messages' = messages
            /\ pc' = "derive"
    /\ UNCHANGED <<matchVars, seriesVars, playerVars, computed>>

(***************************************************************************)
(* ADD CALCULATED FIELDS.                                                  *)
(***************************************************************************)
WinnerOfLess(r) == IF r.runs_team1 < r.runs_team2 THEN r.team1 ELSE r.team2

WinnerOf(r) == IF r.runs_team1 > r.runs_team2 THEN r.team1 ELSE r.team2

MarginOf(r) == Abs(r.runs_team1 - r.runs_team2)

AddCalculatedFields ==
    /\ pc = "derive"
    /\ df' = [i \in DOMAIN df |->
                df[i] @@ [winner |-> WinnerOf(df[i]), margin |-> MarginOf(df[i])]]
    /\ columns' = columns \cup {"winner", "margin"}
    /\ computed' = computed \cup {"winner", "margin"}
    /\ pc' = "sidebar"
    /\ UNCHANGED <<match_file, team, team_df, messages, seriesVars, playerVars>>

(***************************************************************************)
(* SIDEBAR and FILTER DATA.                                                *)
(***************************************************************************)
TeamsOf(table) ==
    {table[i].team1 : i \in DOMAIN table} \cup {table[i].team2 : i \in DOMAIN table}

Sidebar ==
    /\ pc = "sidebar"
    /\ \E t \in TeamsOf(df) : team' = t
    /\ pc' = "filter"
    /\ UNCHANGED <<match_file, columns, df, team_df, messages, seriesVars,
                   playerVars, computed>>

TeamRuns(r, t) == IF r.team1 = t THEN r.runs_team1 ELSE r.runs_team2

Filtered(table, t) ==
    LET kept == SelectIdx(table, {i \in DOMAIN table :
                                    table[i].team1 = t \/ table[i].team2 = t})
    IN  [i \in DOMAIN kept |-> kept[i] @@ [team_runs |-> TeamRuns(kept[i], t)]]

\* sort_values sorts with kind="quicksort", which is not stable: the result
\* is any arrangement of the rows in ascending date order.
SortValuesByDate(s) ==
    {[k \in DOMAIN o |-> s[o[k]]] :
        o \in Orderings(DOMAIN s, [i \in DOMAIN s |-> s[i].date])}

FilterData ==
    /\ pc = "filter"
    /\ team_df' \in SortValuesByDate(Filtered(df, team))
    /\ computed' = computed \cup {"team_df"}
    /\ pc' = "rolling"
    /\ UNCHANGED <<match_file, columns, df, team, messages, seriesVars, playerVars>>

(***************************************************************************)
(* TAB 1: rolling average.  rolling(5).mean() slides a window over the     *)
(* series keeping a running sum and a count of observations; min_periods   *)
(* defaults to the window, and an entry with fewer observations is NaN.    *)
(***************************************************************************)
Window == 5

TeamRunsOf(s) == [i \in DOMAIN s |-> s[i].team_runs]

RollingState(xs, window, minp) ==
    LET F[i \in 0..Len(xs)] ==
            IF i = 0 THEN [sum |-> 0, nobs |-> 0, out |-> <<>>]
            ELSE LET prev == F[i - 1]
                     sum  == prev.sum + xs[i] - (IF i > window THEN xs[i - window] ELSE 0)
                     nobs == prev.nobs + 1 - (IF i > window THEN 1 ELSE 0)
                 IN  [sum |-> sum, nobs |-> nobs,
                      out |-> Append(prev.out,
                                     IF nobs >= minp THEN Num(sum, nobs) ELSE NaN)]
    IN  F[Len(xs)]

RollingMeanPartial(xs) == RollingState(xs, Window, 1).out

RollingMean(xs) == RollingState(xs, Window, Window).out

RollingAverage ==
    /\ pc = "rolling"
    /\ rolling_avg' = RollingMean(TeamRunsOf(team_df))
    /\ computed' = computed \cup {"rolling_avg"}
    /\ pc' = "outliers"
    /\ UNCHANGED <<matchVars, outliers, prediction, messages, playerVars>>

(***************************************************************************)
(* TAB 1: outliers.  stats.zscore is (x - mean) / std with the population  *)
(* standard deviation (ddof = 0).  The model keeps the square of the score *)
(* (the deviation squared over the variance), which is rational, and tests *)
(* it against the square of the threshold; 0/0 is nan and nan > 2 is false.*)
(***************************************************************************)
ZThreshold == 2

Mean(xs) == Div(Num(SumSeq(xs), 1), Num(Len(xs), 1))

Deviations(xs) ==
    LET mn == Mean(xs)
    IN  [i \in DOMAIN xs |-> Add(Num(xs[i], 1), Mul(Num(-1, 1), mn))]

SquaresOf(devs) == [i \in DOMAIN devs |-> Mul(devs[i], devs[i])]

\* np.var with ddof = 1, the sample variance.
VarianceSample(devs) == Div(SumNum(SquaresOf(devs)), Num(Len(devs) - 1, 1))

\* np.var with ddof = 0, zscore's default.
Variance(devs) == Div(SumNum(SquaresOf(devs)), Num(Len(devs), 1))

ZScoresSquared(xs) ==
    LET devs == Deviations(xs)
        var  == Variance(devs)
        sq   == SquaresOf(devs)
    IN  [i \in DOMAIN xs |-> Div(sq[i], var)]

ExceedsOrEquals(z2) ==
    \/ Gt(z2, Num(ZThreshold * ZThreshold, 1))
    \/ NumEq(z2, Num(ZThreshold * ZThreshold, 1))

\* np.abs(z) > 2, on the square of z.
Exceeds(z2) == Gt(z2, Num(ZThreshold * ZThreshold, 1))

OutlierRows(s) ==
    LET z2 == ZScoresSquared(TeamRunsOf(s))
    IN  SelectIdx(s, {i \in DOMAIN s : Exceeds(z2[i])})

Outliers ==
    /\ pc = "outliers"
    /\ LET rows == OutlierRows(team_df)
       IN  /\ outliers' = rows
           /\ messages' = IF rows # <<>>
                          THEN Report("warning", "outlier matches found")
                          ELSE Report("info", "No outliers detected.")
    /\ computed' = computed \cup {"outliers"}
    /\ pc' = "predict"
    /\ UNCHANGED <<matchVars, rolling_avg, prediction, playerVars>>

(***************************************************************************)
(* TAB 1: ML prediction.  LinearRegression().fit on X = 0..n-1 is the      *)
(* ordinary least-squares line; predict([[n]]) evaluates it at n.          *)
(***************************************************************************)
MinMatches == 5

\* coef = sum((x - mx)(y - my)) / sum((x - mx)^2), intercept = my - coef * mx,
\* with x the 0-based position of an observation.
LinearFit(ys) ==
    LET n   == Len(ys)
        sx  == SumSeq([i \in 1..n |-> i - 1])
        sy  == SumSeq(ys)
        sxy == SumSeq([i \in 1..n |-> (i - 1) * ys[i]])
        sxx == SumSeq([i \in 1..n |-> (i - 1) * (i - 1)])
        coef == Div(Num(n * sxy - sx * sy, 1), Num(n * sxx - sx * sx, 1))
        intercept == Add(Div(Num(sy, 1), Num(n, 1)),
                         Mul(Num(-1, 1), Mul(coef, Div(Num(sx, 1), Num(n, 1)))))
    IN  [coef |-> coef, intercept |-> intercept]

PredictAt(m, x) == Add(m.intercept, Mul(m.coef, Num(x, 1)))

NextIndexLast(ys) == Len(ys) - 1

NextIndex(ys) == Len(ys)

MLPrediction ==
    /\ pc = "predict"
    /\ IF Len(team_df) >= MinMatches
       THEN LET ys == TeamRunsOf(team_df)
                m  == LinearFit(ys)
            IN  /\ prediction' = [kind |-> "value", model |-> m,
                                  value |-> PredictAt(m, NextIndex(ys))]
                /\ messages' = Report("success", "Predicted Next Match Runs")
                /\ computed' = computed \cup {"prediction"}
       ELSE /\ prediction' = [kind |-> "insufficient"]
            /\ messages' = Report("info", "Need at least 5 matches for prediction.")
            /\ computed' = computed
    /\ pc' = "tab2"
    /\ UNCHANGED <<matchVars, rolling_avg, outliers, playerVars>>

(***************************************************************************)
(* TAB 2: player comparison.  The player table is read as written: its     *)
(* column names are not normalised.                                        *)
(***************************************************************************)
required == {"player_name", "team", "runs", "wickets", "strike_rate", "economy"}

PlayerRows ==
    {[team |-> "T", runs |-> 0, wickets |-> 0, strike_rate |-> 0, economy |-> 0],
     [team |-> "T", runs |-> 2, wickets |-> 0, strike_rate |-> 2, economy |-> 1],
     [team |-> "T", runs |-> 1, wickets |-> 1, strike_rate |-> 1, economy |-> 2],
     [team |-> "T", runs |-> 0, wickets |-> 2, strike_rate |-> 1, economy |-> 1]}

\* player_name is the unique key: row i of a table carries player_name i.
WithNames(t) == [i \in DOMAIN t |-> t[i] @@ [player_name |-> i]]

PlayerTables(n) == {WithNames(t) : t \in SeqsUpTo(PlayerRows, 1, n)}

\* The uploads drawn: complete headers over tables of up to MaxPlayers rows,
\* and headers lacking up to MaxMissing columns over one-row tables.
PlayerFiles ==
    {[uploaded |-> TRUE, cols |-> required, rows |-> t] : t \in PlayerTables(MaxPlayers)}
    \cup
    {[uploaded |-> TRUE, cols |-> required \ m, rows |-> Restrict(t, required \ m)] :
        m \in {x \in SUBSET required : x # {} /\ Cardinality(x) <= MaxMissing},
        t \in PlayerTables(1)}

NoPlayers == [cols |-> {}, rows |-> <<>>]

NoCompare == [made |-> FALSE]

PlayerNames(t) == {t.rows[i].player_name : i \in DOMAIN t.rows}

\* players[players["player_name"] == name].iloc[0]
FirstNamed(t, name) ==
    t.rows[CHOOSE i \in DOMAIN t.rows :
              /\ t.rows[i].player_name = name
              /\ \A j \in DOMAIN t.rows : t.rows[j].player_name = name => i <= j]

\* st.selectbox over the sorted names returns its first option until the user
\* picks another; the model draws that first option.
DefaultOption(names) == {n \in names : \A m \in names : n <= m}

Metrics(r) == <<r.runs, r.wickets, r.strike_rate, r.economy>>

PlayerComparison ==
    /\ pc = "tab2"
    /\ \E f \in PlayerFiles \cup {NoFile} :
          /\ player_file' = f
          /\ IF ~f.uploaded
             THEN /\ messages' = Report("info", "Upload a CSV with player stats.")
                  /\ UNCHANGED <<players, compare, computed>>
             ELSE /\ players' = [cols |-> f.cols, rows |-> f.rows]
                  /\ IF ~(required \subseteq f.cols)
                     THEN /\ messages' = Report("error", required \ f.cols)
                          /\ UNCHANGED <<compare, computed>>
                     ELSE /\ \E player1, player2 \in DefaultOption(PlayerNames(f)) :
                                compare' = [made |-> TRUE,
                                            player1 |-> Metrics(FirstNamed(f, player1)),
                                            player2 |-> Metrics(FirstNamed(f, player2))]
                          /\ computed' = computed \cup {"compare"}
                          /\ messages' = messages
    /\ pc' = "tab3"
    /\ UNCHANGED <<matchVars, seriesVars, top_players>>

(***************************************************************************)
(* TAB 3: top performers.  The block runs whenever a player file was       *)
(* uploaded; reading a column the table lacks raises KeyError.             *)
(***************************************************************************)
TopN == 5

TopPerformers ==
    /\ pc = "tab3"
    /\ IF player_file.uploaded
       THEN /\ pc' = "bat_score"
            /\ messages' = messages
       ELSE /\ pc' = "done"
            /\ messages' = Report("info", "Upload a player stats CSV")
    /\ UNCHANGED <<matchVars, seriesVars, playerVars, computed>>

ColumnOf(t, c) == [i \in DOMAIN t.rows |-> t.rows[i][c]]

\* Series.max() / Series.min() of a column without NaN.
ColMax(xs) == CHOOSE m \in Range(xs) : \A x \in Range(xs) : x <= m

ColMin(xs) == CHOOSE m \in Range(xs) : \A x \in Range(xs) : m <= x

BatScoreOf(t, i) ==
    Add(Mul(Div(Num(t.rows[i].runs, 1), Num(ColMax(ColumnOf(t, "runs")), 1)),
            Num(6, 10)),
        Mul(Div(Num(t.rows[i].strike_rate, 1),
                Num(ColMax(ColumnOf(t, "strike_rate")), 1)),
            Num(4, 10)))

BowlScoreOf(t, i) ==
    Add(Mul(Div(Num(t.rows[i].wickets, 1), Num(ColMax(ColumnOf(t, "wickets")), 1)),
            Num(7, 10)),
        Mul(Div(Num(ColMin(ColumnOf(t, "economy")), 1), Num(t.rows[i].economy, 1)),
            Num(3, 10)))

PerformanceIndexOf(r) == Div(Add(r.bat_score, r.bowl_score), Num(2, 1))

KeyError(c) ==
    /\ pc' = "crashed"
    /\ messages' = Report("exception", <<"KeyError", c>>)

BatScore ==
    /\ pc = "bat_score"
    /\ IF "runs" \notin players.cols
       THEN KeyError("runs") /\ UNCHANGED <<players, computed>>
       ELSE IF "strike_rate" \notin players.cols
       THEN KeyError("strike_rate") /\ UNCHANGED <<players, computed>>
       ELSE /\ computed' = computed \cup {"bat_score"}
            /\ players' = [cols |-> players.cols \cup {"bat_score"},
                           rows |-> [i \in DOMAIN players.rows |->
                                       players.rows[i] @@
                                       [bat_score |-> BatScoreOf(players, i)]]]
            /\ pc' = "bowl_score"
            /\ messages' = messages
    /\ UNCHANGED <<matchVars, seriesVars, player_file, compare, top_players>>

BowlScore ==
    /\ pc = "bowl_score"
    /\ IF "wickets" \notin players.cols
       THEN KeyError("wickets") /\ UNCHANGED <<players, computed>>
       ELSE IF "economy" \notin players.cols
       THEN KeyError("economy") /\ UNCHANGED <<players, computed>>
       ELSE /\ computed' = computed \cup {"bowl_score"}
            /\ players' = [cols |-> players.cols \cup {"bowl_score"},
                           rows |-> [i \in DOMAIN players.rows |->
                                       players.rows[i] @@
                                       [bowl_score |-> BowlScoreOf(players, i)]]]
            /\ pc' = "performance_index"
            /\ messages' = messages
    /\ UNCHANGED <<matchVars, seriesVars, player_file, compare, top_players>>

PerformanceIndex ==
    /\ pc = "performance_index"
    /\ computed' = computed \cup {"performance_index"}
    /\ players' = [cols |-> players.cols \cup {"performance_index"},
                   rows |-> [i \in DOMAIN players.rows |->
                               players.rows[i] @@
                               [performance_index |->
                                   PerformanceIndexOf(players.rows[i])]]]
    /\ pc' = "top_players"
    /\ UNCHANGED <<matchVars, seriesVars, player_file, compare, top_players, messages>>

\* sort_values(ascending=False): the rows whose key is not NaN in descending
\* order (equal keys in any order: the sort is not stable), then the NaN rows
\* in table order (na_position="last").
IsNaN(x) == x.k = "nan"

RankOf(rows, i) ==
    Cardinality({j \in DOMAIN rows :
                   Gt(rows[j].performance_index, rows[i].performance_index)})

SortValuesDescending(rows) ==
    LET nans == SelectIdx([i \in DOMAIN rows |-> i],
                          {i \in DOMAIN rows : IsNaN(rows[i].performance_index)})
        nums == {i \in DOMAIN rows : ~IsNaN(rows[i].performance_index)}
    IN  {[k \in 1..Len(rows) |-> rows[(o \o nans)[k]]] :
            o \in Orderings(nums, [i \in nums |-> RankOf(rows, i)])}

HeadFour(s) == SubSeq(s, 1, Min(TopN - 1, Len(s)))

Head5(s) == SubSeq(s, 1, Min(TopN, Len(s)))

TopPlayers ==
    /\ pc = "top_players"
    /\ computed' = computed \cup {"top_players"}
    /\ \E sorted \in SortValuesDescending(players.rows) :
          top_players' = Head5(sorted)
    /\ IF {"player_name", "team"} \subseteq players.cols
       THEN /\ pc' = "done"
            /\ messages' = messages
       ELSE KeyError("not in index")
    /\ UNCHANGED <<matchVars, seriesVars, player_file, players, compare>>

(***************************************************************************)
(* The run of the script, and the team tab and the player tabs on their    *)
(* own inputs.                                                             *)
(***************************************************************************)
Blank ==
    /\ match_file = NoFile
    /\ columns = {}
    /\ df = <<>>
    /\ team = "None"
    /\ team_df = <<>>
    /\ rolling_avg = <<>>
    /\ outliers = <<>>
    /\ prediction = [kind |-> "unset"]
    /\ messages = <<>>
    /\ player_file = NoFile
    /\ players = NoPlayers
    /\ compare = NoCompare
    /\ top_players = <<>>
    /\ computed = {}

Init == Blank /\ pc = "upload"

Next ==
    \/ FileUpload
    \/ ReadCsv
    \/ BasicValidation
    \/ AddCalculatedFields
    \/ Sidebar
    \/ FilterData
    \/ RollingAverage
    \/ Outliers
    \/ MLPrediction

Spec == Init /\ [][Next]_vars

\* The team tab on a team series of up to MaxSeries observations.
SeriesRuns == {10, 20, 30, 50}

\* Series on a line, a + b * i.
LinearSeries ==
    {[i \in 1..n |-> a + b * (i - 1)] :
        a \in {10, 20}, b \in {0, 5, 10}, n \in 1..MaxSeries}

\* Longer series, level but for two observations: the shortest length at
\* which two observations can both lie more than two standard deviations out.
LongLen == 9

LongSeries ==
    {[k \in 1..LongLen |-> IF k = i THEN a ELSE IF k = j THEN b ELSE 30] :
        i \in 1..LongLen, j \in 1..LongLen, a \in {10, 50}, b \in {10, 50}}

SeriesTables ==
    {[i \in DOMAIN xs |->
        [match_id |-> i, date |-> i, venue |-> "V", team_runs |-> xs[i]]] :
        xs \in SeqsUpTo(SeriesRuns, 1, MaxSeries) \cup LinearSeries \cup LongSeries}

InitSeries ==
    /\ pc = "rolling"
    /\ match_file = NoFile
    /\ columns = required_cols \cup {"winner", "margin"}
    /\ df = <<>>
    /\ team = "A"
    /\ team_df \in SeriesTables
    /\ rolling_avg = <<>>
    /\ outliers = <<>>
    /\ prediction = [kind |-> "unset"]
    /\ messages = <<>>
    /\ player_file = NoFile
    /\ players = NoPlayers
    /\ compare = NoCompare
    /\ top_players = <<>>
    /\ computed = {"winner", "margin", "team_df"}

NextSeries ==
    \/ RollingAverage
    \/ Outliers
    \/ MLPrediction

SpecSeries == InitSeries /\ [][NextSeries]_vars

\* The player tabs on a player upload of up to MaxPlayers rows.
InitPlayers == Blank /\ pc = "tab2"

NextPlayers ==
    \/ PlayerComparison
    \/ TopPerformers
    \/ BatScore
    \/ BowlScore
    \/ PerformanceIndex
    \/ TopPlayers

SpecPlayers == InitPlayers /\ [][NextPlayers]_vars

(***************************************************************************)
(* Properties of the run of the script (Spec).                             *)
(***************************************************************************)
Derived == "winner" \in columns

\* C1: in every row of a match table that passed validation the winner is
\* one of the row's two teams, the margin is the absolute difference of the
\* runs (so never negative), the margin is 0 only when the runs are equal,
\* and when the runs differ the winner is the team with more runs.
C1_WinnerAndMargin ==
    Derived =>
        \A i \in DOMAIN df :
            LET r == df[i]
            IN  /\ r.winner \in {r.team1, r.team2}
                /\ r.margin >= 0
                /\ r.margin = (IF r.runs_team1 >= r.runs_team2
                               THEN r.runs_team1 - r.runs_team2
                               ELSE r.runs_team2 - r.runs_team1)
                /\ (r.margin = 0 => r.runs_team1 = r.runs_team2)
                /\ (r.runs_team1 > r.runs_team2 => r.winner = r.team1)
                /\ (r.runs_team2 > r.runs_team1 => r.winner = r.team2)

C1_Witness ==
    /\ Derived
    /\ \E i, j \in DOMAIN df :
          /\ df[i].runs_team1 > df[i].runs_team2
          /\ df[i].winner = df[i].team1 /\ df[i].margin > 0
          /\ df[j].runs_team1 = df[j].runs_team2 /\ df[j].margin = 0

\* The required columns a header lacks, its names compared trimmed and in
\* lower case.
Lacking(header) == required_cols \ {StripLower(c).name : c \in header}

LastMessage == messages[Len(messages)]

\* C2: whenever the uploaded match table lacks a required column (date
\* included), the run ends in a reported missing-column error naming the
\* missing columns, and no derived computation is performed.
C2_MissingColumnReported ==
    (match_file.uploaded /\ Lacking(match_file.header) # {}
        /\ pc \notin {"upload", "read", "validate"})
    => /\ pc = "stopped"
       /\ messages # <<>>
       /\ LastMessage = [kind |-> "error", text |-> Lacking(match_file.header)]
       /\ computed = {}

\* The rows of the match table the selected team played in, in table order.
Played == SelectIdx(df, {i \in DOMAIN df : df[i].team1 = team \/ df[i].team2 = team})

\* C4: the team series holds exactly the rows the team played in, each once,
\* each with team_runs taken from the team's side, ordered by date ascending
\* with rows of equal date in their table order.
C4_TeamSeriesStable ==
    "team_df" \in computed =>
        /\ Len(team_df) = Len(Played)
        /\ {team_df[i].match_id : i \in DOMAIN team_df}
              = {Played[i].match_id : i \in DOMAIN Played}
        /\ \A i \in DOMAIN team_df :
              LET r == team_df[i]
              IN  /\ df[r.match_id].team1 = team => r.team_runs = df[r.match_id].runs_team1
                  /\ df[r.match_id].team1 # team => r.team_runs = df[r.match_id].runs_team2
        /\ \A i, j \in DOMAIN team_df :
              i < j => \/ team_df[i].date < team_df[j].date
                       \/ /\ team_df[i].date = team_df[j].date
                          /\ team_df[i].match_id < team_df[j].match_id

(***************************************************************************)
(* Properties of the team tab (SpecSeries).                                *)
(***************************************************************************)
runs == TeamRunsOf(team_df)

\* C5: entry i (0-indexed) of the rolling average is the mean of team_runs
\* at i-4..i when i >= 4 and the undefined marker (NaN, not 0 and not the
\* mean of a shorter window) when i < 4; it depends on no later observation:
\* the series cut after position i gives the same entry.
C5_RollingAverage ==
    pc = "outliers" =>
        /\ Len(rolling_avg) = Len(runs)
        /\ \A p \in DOMAIN runs :
              /\ p < Window => rolling_avg[p] = NaN
              /\ p >= Window =>
                    /\ IsNum(rolling_avg[p])
                    /\ Window * rolling_avg[p].n
                          = rolling_avg[p].d * SumSeq(SubSeq(runs, p - Window + 1, p))
              /\ LET cut == RollingMean(SubSeq(runs, 1, p))
                 IN  IF IsNum(cut[p]) THEN NumEq(cut[p], rolling_avg[p])
                     ELSE cut[p] = rolling_avg[p]

C5_Witness ==
    /\ pc = "outliers"
    /\ Len(runs) >= Window + 1
    /\ rolling_avg[Window - 1] = NaN
    /\ IsNum(rolling_avg[Window]) /\ IsNum(rolling_avg[Window + 1])
    /\ ~NumEq(rolling_avg[Window], rolling_avg[Window + 1])

SumSquares(xs) == SumSeq([i \in DOMAIN xs |-> xs[i] * xs[i]])

\* n^2 times the population variance of xs, and n times the deviation of
\* xs[i] from the mean, both integers.
ScaledVariance(xs) == Len(xs) * SumSquares(xs) - SumSeq(xs) * SumSeq(xs)

ScaledDeviation(xs, i) == Len(xs) * xs[i] - SumSeq(xs)

FarFromMean(xs, i) ==
    ScaledDeviation(xs, i) * ScaledDeviation(xs, i) > 4 * ScaledVariance(xs)

Residuals(m, ys) ==
    [i \in DOMAIN ys |-> Add(Num(ys[i], 1), Mul(Num(-1, 1), PredictAt(m, i - 1)))]

IsLinear(ys) ==
    \A i \in 1..(Len(ys) - 1) : ys[i + 1] - ys[i] = ys[2] - ys[1]

\* C7: the predictor yields a number exactly when the series has at least 5
\* observations; with fewer it reports "insufficient data", raises nothing
\* and the run goes on to the next tab; with n >= 5 the prediction is the
\* least-squares line over the positions 0..n-1 (its residuals sum to 0 and
\* are orthogonal to the positions) evaluated at n, so a series a + b*i gives
\* a + b*n and a constant series gives the constant.
C7_TrendPrediction ==
    prediction.kind # "unset" =>
        /\ pc = "tab2"
        /\ \A i \in DOMAIN messages : messages[i].kind # "exception"
        /\ prediction.kind = "value" <=> Len(runs) >= 5
        /\ Len(runs) < 5 =>
              /\ prediction.kind = "insufficient"
              /\ LastMessage.kind = "info"
        /\ Len(runs) >= 5 =>
              LET m == prediction.model
                  res == Residuals(m, runs)
              IN  /\ IsNum(prediction.value)
                  /\ NumEq(SumNum(res), Num(0, 1))
                  /\ NumEq(SumNum([i \in DOMAIN res |-> Mul(Num(i - 1, 1), res[i])]),
                           Num(0, 1))
                  /\ NumEq(prediction.value, PredictAt(m, Len(runs)))
                  /\ IsLinear(runs) =>
                        NumEq(prediction.value,
                              Num(runs[1] + (runs[2] - runs[1]) * Len(runs), 1))

C7_Witness ==
    /\ prediction.kind = "value"
    /\ runs = <<10, 20, 30, 40, 50>>
    /\ NumEq(prediction.value, Num(60, 1))

(***************************************************************************)
(* Properties of the player tabs (SpecPlayers).                            *)
(***************************************************************************)
PlayerDerived ==
    {"compare", "bat_score", "bowl_score", "performance_index", "top_players"}

\* C3: whenever the uploaded player table lacks a required column, a
\* missing-column error is reported and no player-derived computation runs in
\* the render cycle: not the comparison of tab 2, nor the scores and the
\* ranking of tab 3.
C3_PlayerValidation ==
    (player_file.uploaded /\ ~(required \subseteq player_file.cols) /\ pc # "tab2")
    => /\ \E i \in DOMAIN messages :
             messages[i] = [kind |-> "error", text |-> required \ player_file.cols]
       /\ computed \cap PlayerDerived = {}
       /\ pc # "crashed"

ValidPlayers == player_file.uploaded /\ required \subseteq player_file.cols

\* C8: for every valid player table of at least one row, a maximum of 0 or
\* an economy of 0 included, every player's bat_score, bowl_score and
\* performance_index is a defined number: never NaN or infinite.
C8_ScoresDefined ==
    ValidPlayers =>
        \A i \in DOMAIN players.rows :
            /\ "bat_score" \in players.cols => IsNum(players.rows[i].bat_score)
            /\ "bowl_score" \in players.cols => IsNum(players.rows[i].bowl_score)
            /\ "performance_index" \in players.cols =>
                  IsNum(players.rows[i].performance_index)

Ranked == ValidPlayers /\ "top_players" \in computed

\* C9: for every valid player table the top-performers output has
\* min(5, rows) rows, each a row of the player table and none twice, in
\* non-increasing order of performance_index (no row's index is greater than
\* that of a row before it), and no player left out has an index strictly
\* greater than that of a player in it.
C9_TopPlayers ==
    Ranked =>
        /\ Len(top_players) = (IF Len(players.rows) < 5 THEN Len(players.rows) ELSE 5)
        /\ \A i \in DOMAIN top_players : top_players[i] \in Range(players.rows)
        /\ \A i, j \in DOMAIN top_players : i # j => top_players[i] # top_players[j]
        /\ \A i, j \in DOMAIN top_players :
              i < j => ~Gt(top_players[j].performance_index,
                           top_players[i].performance_index)
        /\ \A r \in Range(players.rows) \ Range(top_players) :
              \A i \in DOMAIN top_players :
                  ~Gt(r.performance_index, top_players[i].performance_index)

C9_Witness ==
    /\ Ranked
    /\ Len(players.rows) = 6
    /\ Len(top_players) = 5
    /\ Gt(top_players[1].performance_index, top_players[5].performance_index)
    /\ top_players[1].player_name > top_players[5].player_name
    /\ \E r \in Range(players.rows) \ Range(top_players) :
          Gt(top_players[5].performance_index, r.performance_index)

====
